---------------------------- MODULE Spec2Model ----------------------------
(***************************************************************************)
(* jsondom: the JSON value (dom.hpp), the tree builder dom_parser, the     *)
(* document reader jsondom::read and the serializer jsondom::write         *)
(* (dom.cpp), driven by the streaming parser of parser.hpp.                *)
(*                                                                         *)
(* Text is a sequence of bytes.  A byte is written as a one-character      *)
(* string; the bytes that have no printable character are written          *)
(* "<BS>" (0x08), "<TAB>" (0x09), "<LF>" (0x0A), "<FF>" (0x0C),            *)
(* "<CR>" (0x0D), "<01>" (0x01), "<C3>" and "<A9>" (the two bytes of a     *)
(* multi-byte UTF-8 character).                                            *)
(***************************************************************************)
EXTENDS Integers, Sequences, FiniteSets, TLC

VARIABLES
    tree,      \* the caller's value: the tree handed to write / to_string / the accessors
    fi,        \* the papki::file: its bytes, the read position, whether it is open
    p,         \* the dom_parser of jsondom::read (parser state, doc, key, stack)
    pc,        \* position of the caller
    ret,       \* outcome of the last operation (returned value or error)
    members,   \* the member list the input document was composed from (<<>> if none)
    fed        \* the chunks handed to p.feed so far, in order

vars == <<tree, fi, p, pc, ret, members, fed>>

(***************************************************************************)
(* Bounds of the model.                                                    *)
(***************************************************************************)
\* the read buffer of jsondom::read holds 4096 bytes; the model's holds MaxChunk,
\* so that one fi.read yields between 1 and MaxChunk bytes
MaxChunk == 3
\* longest string payload / key of a generated tree
MaxStrLen == 2
\* longest member list of a generated object document
MaxMembers == 3
\* longest array of a generated tree
MaxArr == 2

(***************************************************************************)
(* Bytes.                                                                  *)
(***************************************************************************)
ByteCode ==
    [c \in {"<01>", "<BS>", "<TAB>", "<LF>", "<FF>", "<CR>", " ", "\"", "+", ",", "-", ".",
            "/", "0", "1", "2", "3", "4", ":", "A", "E", "[", "\\", "]", "a", "b", "e",
            "f", "l", "n", "r", "s", "t", "u", "{", "}", "<A9>", "<C3>"} |->
        CASE c = "<01>" -> 1    [] c = "<BS>" -> 8   [] c = "<TAB>" -> 9  [] c = "<LF>" -> 10
          [] c = "<FF>" -> 12   [] c = "<CR>" -> 13  [] c = " " -> 32     [] c = "\"" -> 34
          [] c = "+" -> 43      [] c = "," -> 44     [] c = "-" -> 45     [] c = "." -> 46
          [] c = "/" -> 47      [] c = "0" -> 48     [] c = "1" -> 49     [] c = "2" -> 50
          [] c = "3" -> 51      [] c = "4" -> 52     [] c = ":" -> 58     [] c = "A" -> 65
          [] c = "E" -> 69      [] c = "[" -> 91     [] c = "\\" -> 92    [] c = "]" -> 93
          [] c = "a" -> 97      [] c = "b" -> 98     [] c = "e" -> 101    [] c = "f" -> 102
          [] c = "l" -> 108     [] c = "n" -> 110    [] c = "r" -> 114    [] c = "s" -> 115
          [] c = "t" -> 116     [] c = "u" -> 117    [] c = "{" -> 123    [] c = "}" -> 125
          [] c = "<A9>" -> 169  [] c = "<C3>" -> 195]

Byte == DOMAIN ByteCode

\* std::string comparison (std::less<> on std::string): lexicographic on byte values
RECURSIVE string_less(_, _)
string_less(a, b) ==
    IF b = <<>> THEN FALSE
    ELSE IF a = <<>> THEN TRUE
    ELSE IF ByteCode[Head(a)] # ByteCode[Head(b)] THEN ByteCode[Head(a)] < ByteCode[Head(b)]
    ELSE string_less(Tail(a), Tail(b))

(***************************************************************************)
(* jsondom::type and jsondom::value.                                       *)
(* A value is its std::variant: the index of the active alternative and    *)
(* the payload, in a field named after the alternative.                    *)
(***************************************************************************)
\* enum class type { null, boolean, number, string, object, array }
type == <<"null", "boolean", "number", "string", "object", "array">>

type_index(t) == CHOOSE i \in 0..5 : type[i + 1] = t

\* string_number(0): the number formatted to text
string_number_0 == <<"0">>

\* variant_type alternatives, in declaration order
variant_nullptr == [index |-> 0]
variant_bool(b) == [index |-> 1, b |-> b]
variant_string_number(n) == [index |-> 2, num |-> n]
variant_string(s) == [index |-> 3, str |-> s]
variant_object(o) == [index |-> 4, obj |-> o]
variant_array(a) == [index |-> 5, arr |-> a]

\* value() = default: the variant's first alternative
value_default == variant_nullptr

\* value(jsondom::type) with the boolean case returning true
value_of_type_true(t) ==
    CASE t = "boolean" -> variant_bool(TRUE)
      [] t = "number" -> variant_string_number(string_number_0)
      [] t = "string" -> variant_string(<<>>)
      [] t = "object" -> variant_object(<<>>)
      [] t = "array" -> variant_array(<<>>)
      [] OTHER -> variant_nullptr

\* value(jsondom::type)
value_of_type(t) ==
    CASE t = "boolean" -> variant_bool(FALSE)
      [] t = "number" -> variant_string_number(string_number_0)
      [] t = "string" -> variant_string(<<>>)
      [] t = "object" -> variant_object(<<>>)
      [] t = "array" -> variant_array(<<>>)
      [] OTHER -> variant_nullptr

\* value::get_type
get_type(v) == type[v.index + 1]

\* value::is<json_type>
is(v, t) == v.index = type_index(t)

\* type_to_name
type_to_name(t) ==
    CASE t = "boolean" -> "boolean"
      [] t = "number" -> "number"
      [] t = "string" -> "string"
      [] t = "object" -> "object"
      [] t = "array" -> "array"
      [] OTHER -> "null"

\* value::throw_access_error: the exception and the parts of its message
throw_access_error(v, tried_access) ==
    [ok |-> FALSE, error |-> "unexpected_value_type",
     what |-> <<"jsondom: could not access ", type_to_name(tried_access),
                "value, stored value is of another type (", type_to_name(get_type(v)), ")">>]

\* the check left out
throw_if_type_is_not_never(v, t) == FALSE

\* value::throw_if_type_is_not<json_type>: TRUE iff it throws
throw_if_type_is_not(v, t) == ~is(v, t)

\* std::get<T>(var) for the alternative T that belongs to accessor t; it throws
\* std::bad_variant_access when T is not the active alternative
std_get(v, t) ==
    CASE t = "boolean" /\ v.index = 1 -> [ok |-> TRUE, val |-> v.b]
      [] t = "number" /\ v.index = 2 -> [ok |-> TRUE, val |-> v.num]
      [] t = "string" /\ v.index = 3 -> [ok |-> TRUE, val |-> v.str]
      [] t = "object" /\ v.index = 4 -> [ok |-> TRUE, val |-> v.obj]
      [] t = "array" /\ v.index = 5 -> [ok |-> TRUE, val |-> v.arr]
      [] OTHER -> [ok |-> FALSE, error |-> "bad_variant_access"]

\* the typed accessors boolean(), number(), string(), array(), object();
\* the mutable and the const overload have the same body
accessor(v, t, const) ==
    IF throw_if_type_is_not(v, t) THEN throw_access_error(v, t) ELSE std_get(v, t)

(***************************************************************************)
(* Serializer.                                                             *)
(***************************************************************************)
\* the forward slash left unescaped
escape_char_no_slash(c) ==
    CASE c = "\"" -> <<"\\", "\"">>
      [] c = "\\" -> <<"\\", "\\">>
      [] c = "<BS>" -> <<"\\", "b">>
      [] c = "<FF>" -> <<"\\", "f">>
      [] c = "<LF>" -> <<"\\", "n">>
      [] c = "<CR>" -> <<"\\", "r">>
      [] c = "<TAB>" -> <<"\\", "t">>
      [] OTHER -> <<c>>

\* the backslash case left out
escape_char_no_backslash(c) ==
    CASE c = "\"" -> <<"\\", "\"">>
      [] c = "/" -> <<"\\", "/">>
      [] c = "<BS>" -> <<"\\", "b">>
      [] c = "<FF>" -> <<"\\", "f">>
      [] c = "<LF>" -> <<"\\", "n">>
      [] c = "<CR>" -> <<"\\", "r">>
      [] c = "<TAB>" -> <<"\\", "t">>
      [] OTHER -> <<c>>

\* the replacement escape_string writes for one character
escape_char(c) ==
    CASE c = "\"" -> <<"\\", "\"">>
      [] c = "\\" -> <<"\\", "\\">>
      [] c = "/" -> <<"\\", "/">>
      [] c = "<BS>" -> <<"\\", "b">>
      [] c = "<FF>" -> <<"\\", "f">>
      [] c = "<LF>" -> <<"\\", "n">>
      [] c = "<CR>" -> <<"\\", "r">>
      [] c = "<TAB>" -> <<"\\", "t">>
      [] OTHER -> <<c>>

RECURSIVE escape_string(_)
escape_string(str) ==
    IF str = <<>> THEN <<>> ELSE escape_char(Head(str)) \o escape_string(Tail(str))

\* the keys in descending order, as std::greater<> would give
RECURSIVE map_order_descending(_)
map_order_descending(keys) ==
    IF keys = {} THEN <<>>
    ELSE LET first == CHOOSE k \in keys : \A o \in keys \ {k} : string_less(o, k)
         IN <<first>> \o map_order_descending(keys \ {first})

\* iteration order of std::map<std::string, value, std::less<>>: ascending keys
RECURSIVE map_order(_)
map_order(keys) ==
    IF keys = {} THEN <<>>
    ELSE LET first == CHOOSE k \in keys : \A o \in keys \ {k} : string_less(k, o)
         IN <<first>> \o map_order(keys \ {first})

RECURSIVE write_internal(_)
RECURSIVE write_array(_, _)
RECURSIVE write_object(_, _, _)

\* the loop of write_internal over v.array(), from element i on
write_array(a, i) ==
    IF i > Len(a) THEN <<>>
    ELSE (IF i # 1 THEN <<",">> ELSE <<>>) \o write_internal(a[i]) \o write_array(a, i + 1)

\* the loop of write_internal over v.object(), from the i-th key of order on
write_object(o, order, i) ==
    IF i > Len(order) THEN <<>>
    ELSE (IF i # 1 THEN <<",">> ELSE <<>>)
         \o <<"\"">> \o escape_string(order[i]) \o <<"\"", ":">>
         \o write_internal(o[order[i]]) \o write_object(o, order, i + 1)

\* numbers formatted anew: trailing zeros of a fraction dropped
write_internal_reformatted(v) ==
    CASE get_type(v) = "boolean" ->
            IF accessor(v, "boolean", TRUE).val THEN <<"t", "r", "u", "e">>
            ELSE <<"f", "a", "l", "s", "e">>
      [] get_type(v) = "number" ->
            IF accessor(v, "number", TRUE).val = <<"3", ".", "1", "4", "0", "0">>
            THEN <<"3", ".", "1", "4">>
            ELSE accessor(v, "number", TRUE).val
      [] get_type(v) = "string" ->
            <<"\"">> \o escape_string(accessor(v, "string", TRUE).val) \o <<"\"">>
      [] get_type(v) = "array" ->
            <<"[">> \o write_array(accessor(v, "array", TRUE).val, 1) \o <<"]">>
      [] get_type(v) = "object" ->
            <<"{">> \o write_object(accessor(v, "object", TRUE).val,
                                    map_order(DOMAIN accessor(v, "object", TRUE).val), 1)
            \o <<"}">>
      [] OTHER -> <<"n", "u", "l", "l">>

write_internal(v) ==
    CASE get_type(v) = "boolean" ->
            IF accessor(v, "boolean", TRUE).val THEN <<"t", "r", "u", "e">>
            ELSE <<"f", "a", "l", "s", "e">>
      [] get_type(v) = "number" -> accessor(v, "number", TRUE).val
      [] get_type(v) = "string" ->
            <<"\"">> \o escape_string(accessor(v, "string", TRUE).val) \o <<"\"">>
      [] get_type(v) = "array" ->
            <<"[">> \o write_array(accessor(v, "array", TRUE).val, 1) \o <<"]">>
      [] get_type(v) = "object" ->
            <<"{">> \o write_object(accessor(v, "object", TRUE).val,
                                    map_order(DOMAIN accessor(v, "object", TRUE).val), 1)
            \o <<"}">>
      [] OTHER -> <<"n", "u", "l", "l">>

(***************************************************************************)
(* Tree builder: dom_parser.                                               *)
(* doc is the top-level wrapper array, key the pending key, stack the      *)
(* open containers.  A value* of the stack is the path from doc to the     *)
(* element it points to: a sequence of steps [idx |-> i] (element i of an  *)
(* array) and [key |-> k] (the entry of an object under k).                *)
(***************************************************************************)
RECURSIVE Deref(_, _)
\* the value a pointer refers to
Deref(v, path) ==
    IF path = <<>> THEN v
    ELSE IF "idx" \in DOMAIN Head(path)
         THEN Deref(v.arr[Head(path).idx], Tail(path))
         ELSE Deref(v.obj[Head(path).key], Tail(path))

RECURSIVE Store(_, _, _)
\* the tree after the value a pointer refers to is replaced by new
Store(v, path, new) ==
    IF path = <<>> THEN new
    ELSE IF "idx" \in DOMAIN Head(path)
         THEN [v EXCEPT !.arr[Head(path).idx] = Store(@, Tail(path), new)]
         ELSE [v EXCEPT !.obj[Head(path).key] = Store(@, Tail(path), new)]

\* the element put at the front instead
emplace_front(a, v) == <<v>> \o a

\* std::vector::emplace_back
emplace_back(a, v) == Append(a, v)

\* std::map::insert instead: an existing entry is kept
map_insert(o, k, v) == [x \in (DOMAIN o) \cup {k} |-> IF x \in DOMAIN o THEN o[x] ELSE v]

\* std::map::operator[] followed by assignment: object()[key] = v
map_assign(o, k, v) == [x \in (DOMAIN o) \cup {k} |-> IF x = k THEN v ELSE o[x]]

\* stack.back()
back(b) == b.stack[Len(b.stack)]

\* the pending key is left in place after the value is stored under it
attach_keep_key(b, v) ==
    LET target == Deref(b.doc, back(b))
    IN CASE get_type(target) = "array" ->
              [b EXCEPT !.doc = Store(b.doc, back(b),
                                      variant_array(emplace_back(target.arr, v)))]
         [] get_type(target) = "object" ->
              [b EXCEPT !.doc = Store(b.doc, back(b),
                                      variant_object(map_assign(target.obj, b.key, v)))]
         [] OTHER -> b

\* the body shared by the value handlers: attach v to the container stack.back()
\* refers to; in an object the pending key is cleared afterwards
attach(b, v) ==
    LET target == Deref(b.doc, back(b))
    IN CASE get_type(target) = "array" ->
              [b EXCEPT !.doc = Store(b.doc, back(b),
                                      variant_array(emplace_back(target.arr, v)))]
         [] get_type(target) = "object" ->
              [b EXCEPT !.doc = Store(b.doc, back(b),
                                      variant_object(map_assign(target.obj, b.key, v))),
                        !.key = <<>>]
         [] OTHER -> b

\* the pointer pushed by on_object_start / on_array_start: &back->array().back()
\* or &back->object()[this->key], taken before the key is cleared
new_element(b) ==
    LET target == Deref(b.doc, back(b))
    IN IF get_type(target) = "array"
       THEN Append(back(b), [idx |-> Len(target.arr) + 1])
       ELSE Append(back(b), [key |-> b.key])

is_container(b) == get_type(Deref(b.doc, back(b))) \in {"array", "object"}

on_object_start(b) ==
    IF is_container(b)
    THEN [attach(b, value_of_type("object")) EXCEPT !.stack = Append(b.stack, new_element(b))]
    ELSE b

\* the container is left on the stack
on_object_end_keep(b) == b

on_object_end(b) == [b EXCEPT !.stack = SubSeq(b.stack, 1, Len(b.stack) - 1)]

on_array_start(b) ==
    IF is_container(b)
    THEN [attach(b, value_of_type("array")) EXCEPT !.stack = Append(b.stack, new_element(b))]
    ELSE b

on_array_end(b) == [b EXCEPT !.stack = SubSeq(b.stack, 1, Len(b.stack) - 1)]

on_key_parsed(b, str) == [b EXCEPT !.key = str]

on_string_parsed(b, str) == attach(b, variant_string(str))

RECURSIVE strip_zeros(_)
strip_zeros(str) ==
    IF str # <<>> /\ str[Len(str)] = "0" /\ (\E i \in 1..Len(str) : str[i] = ".")
    THEN strip_zeros(SubSeq(str, 1, Len(str) - 1))
    ELSE str

\* the literal renormalized instead of kept verbatim
on_number_parsed_normalized(b, str) == attach(b, variant_string_number(strip_zeros(str)))

on_number_parsed(b, str) == attach(b, variant_string_number(str))

on_boolean_parsed(b, bool) == attach(b, variant_bool(bool))

on_null_parsed(b) == attach(b, value_default)

(***************************************************************************)
(* Parser (parser.hpp): the push-style state machine dom_parser derives    *)
(* from.  Its state is kept in the same record as the builder's:           *)
(*   containers  the stack of open-container states, each                  *)
(*               [kind |-> "InArray" | "InObject", sub |-> ..., empty]     *)
(*   tstate      the token state: "none", the InString states "Normal",    *)
(*               "Escape", "UnicodeEscape", the InNumber states "Sign",    *)
(*               "IntegerDigits", "Fraction", "ExponentSign",              *)
(*               "ExponentDigits", or "InLiteral"                          *)
(*   tbuf        the partial token retained between chunks                 *)
(*   hex         the hex digits of a partial \u escape                     *)
(*   word        the keyword an InLiteral state is matching                *)
(*   pos         the number of bytes consumed                              *)
(*   error       NoError or the SyntaxError signalled                      *)
(*   out         the events of the byte being parsed, not yet delivered    *)
(*   events      the structural events delivered so far                    *)
(***************************************************************************)
NoError == [kind |-> "none"]

Whitespace == {" ", "<LF>", "<CR>", "<TAB>"}
Digit == {"0", "1", "2", "3", "4"}
HexDigit == Digit \cup {"A", "E", "a", "b", "e", "f"}

\* the state a SyntaxError reports
state_name(q) ==
    IF q.tstate # "none" THEN q.tstate
    ELSE IF q.containers = <<>> THEN "ExpectingValue"
    ELSE q.containers[Len(q.containers)].sub

syntax_error(q) ==
    [q EXCEPT !.error = [kind |-> "SyntaxError", state |-> state_name(q), pos |-> q.pos]]

\* the parser emits an event
emit(q, e) == [q EXCEPT !.out = Append(@, e)]

\* the handler the tree builder overrides for an event
handler(q, e) ==
    CASE e.ev = "object_start" -> on_object_start(q)
      [] e.ev = "object_end" -> on_object_end(q)
      [] e.ev = "array_start" -> on_array_start(q)
      [] e.ev = "array_end" -> on_array_end(q)
      [] e.ev = "key_parsed" -> on_key_parsed(q, e.str)
      [] e.ev = "string_parsed" -> on_string_parsed(q, e.str)
      [] e.ev = "number_parsed" -> on_number_parsed(q, e.str)
      [] e.ev = "boolean_parsed" -> on_boolean_parsed(q, e.b)
      [] e.ev = "null_parsed" -> on_null_parsed(q)

RECURSIVE deliver(_)
\* the events a byte emitted reach their handlers in the order of emission (a
\* handler changes doc, key and stack only, never the parser's own state)
deliver(q) ==
    IF q.out = <<>> THEN q
    ELSE deliver(handler([q EXCEPT !.out = Tail(@), !.events = Append(@, Head(q.out))],
                         Head(q.out)))

\* a value is complete: the enclosing container expects a comma or its end
value_done(q) ==
    IF q.containers = <<>> THEN q
    ELSE [q EXCEPT !.containers[Len(q.containers)].sub = "ExpectingCommaOrEnd"]

set_sub(q, sub) ==
    [q EXCEPT !.containers[Len(q.containers)].sub = sub,
              !.containers[Len(q.containers)].empty = FALSE]

pop_container(q) ==
    [q EXCEPT !.containers = SubSeq(q.containers, 1, Len(q.containers) - 1)]

\* a byte where a value may start
begin_value(q, c) ==
    CASE c = "{" ->
            [emit(q, [ev |-> "object_start"]) EXCEPT
                !.containers = Append(q.containers,
                    [kind |-> "InObject", sub |-> "ExpectingKey", empty |-> TRUE])]
      [] c = "[" ->
            [emit(q, [ev |-> "array_start"]) EXCEPT
                !.containers = Append(q.containers,
                    [kind |-> "InArray", sub |-> "ExpectingValue", empty |-> TRUE])]
      [] c = "\"" -> [q EXCEPT !.tstate = "Normal", !.tbuf = <<>>]
      [] c = "-" -> [q EXCEPT !.tstate = "Sign", !.tbuf = <<c>>]
      [] c \in Digit -> [q EXCEPT !.tstate = "IntegerDigits", !.tbuf = <<c>>]
      [] c = "t" -> [q EXCEPT !.tstate = "InLiteral", !.word = <<"t", "r", "u", "e">>,
                              !.tbuf = <<c>>]
      [] c = "f" -> [q EXCEPT !.tstate = "InLiteral", !.word = <<"f", "a", "l", "s", "e">>,
                              !.tbuf = <<c>>]
      [] c = "n" -> [q EXCEPT !.tstate = "InLiteral", !.word = <<"n", "u", "l", "l">>,
                              !.tbuf = <<c>>]
      [] OTHER -> syntax_error(q)

\* a byte between tokens
parse_structure(q, c) ==
    IF c \in Whitespace THEN q
    ELSE IF q.containers = <<>> THEN begin_value(q, c)
    ELSE LET top == q.containers[Len(q.containers)]
         IN CASE top.kind = "InArray" /\ top.sub = "ExpectingValue" ->
                    IF c = "]" /\ top.empty
                    THEN value_done(pop_container(emit(q, [ev |-> "array_end"])))
                    ELSE begin_value(q, c)
              [] top.kind = "InArray" /\ top.sub = "ExpectingCommaOrEnd" ->
                    IF c = "," THEN set_sub(q, "ExpectingValue")
                    ELSE IF c = "]"
                    THEN value_done(pop_container(emit(q, [ev |-> "array_end"])))
                    ELSE syntax_error(q)
              [] top.kind = "InObject" /\ top.sub = "ExpectingKey" ->
                    IF c = "\"" THEN [q EXCEPT !.tstate = "Normal", !.tbuf = <<>>]
                    ELSE IF c = "}" /\ top.empty
                    THEN value_done(pop_container(emit(q, [ev |-> "object_end"])))
                    ELSE syntax_error(q)
              [] top.kind = "InObject" /\ top.sub = "ExpectingColon" ->
                    IF c = ":" THEN set_sub(q, "ExpectingValue") ELSE syntax_error(q)
              [] top.kind = "InObject" /\ top.sub = "ExpectingValue" -> begin_value(q, c)
              [] top.kind = "InObject" /\ top.sub = "ExpectingCommaOrEnd" ->
                    IF c = "," THEN set_sub(q, "ExpectingKey")
                    ELSE IF c = "}"
                    THEN value_done(pop_container(emit(q, [ev |-> "object_end"])))
                    ELSE syntax_error(q)

\* the closing quote: a key in ExpectingKey, a string value otherwise
end_string(q) ==
    LET r == [q EXCEPT !.tstate = "none", !.tbuf = <<>>]
    IN IF q.containers # <<>> /\ q.containers[Len(q.containers)].sub = "ExpectingKey"
       THEN set_sub(emit(r, [ev |-> "key_parsed", str |-> q.tbuf]), "ExpectingColon")
       ELSE value_done(emit(r, [ev |-> "string_parsed", str |-> q.tbuf]))

\* the character a one-letter escape stands for
unescape(c) ==
    CASE c = "b" -> "<BS>" [] c = "f" -> "<FF>" [] c = "n" -> "<LF>"
      [] c = "r" -> "<CR>" [] c = "t" -> "<TAB>" [] OTHER -> c

\* the bytes a \uXXXX escape stands for (UTF-8 of the code point)
unicode_decode(h) ==
    CASE h = <<"0", "0", "4", "1">> -> <<"A">>
      [] h = <<"0", "0", "0", "1">> -> <<"<01>">>
      [] OTHER -> <<"<C3>", "<A9>">>

parse_string(q, c) ==
    CASE q.tstate = "Normal" ->
            IF c = "\"" THEN end_string(q)
            ELSE IF c = "\\" THEN [q EXCEPT !.tstate = "Escape"]
            ELSE [q EXCEPT !.tbuf = Append(@, c)]
      [] q.tstate = "Escape" ->
            IF c \in {"\"", "\\", "/", "b", "f", "n", "r", "t"}
            THEN [q EXCEPT !.tstate = "Normal", !.tbuf = Append(@, unescape(c))]
            ELSE IF c = "u" THEN [q EXCEPT !.tstate = "UnicodeEscape", !.hex = <<>>]
            ELSE syntax_error(q)
      [] q.tstate = "UnicodeEscape" ->
            IF c \notin HexDigit THEN syntax_error(q)
            ELSE IF Len(q.hex) < 3 THEN [q EXCEPT !.hex = Append(@, c)]
            ELSE [q EXCEPT !.tstate = "Normal", !.hex = <<>>,
                           !.tbuf = @ \o unicode_decode(Append(q.hex, c))]

\* the number token ended before c: it is emitted and c is parsed as structure
end_number(q, c) ==
    parse_structure(
        value_done(emit([q EXCEPT !.tstate = "none", !.tbuf = <<>>],
                        [ev |-> "number_parsed", str |-> q.tbuf])), c)

parse_number(q, c) ==
    LET last == q.tbuf[Len(q.tbuf)]
        leading_zero == q.tbuf \in {<<"0">>, <<"-", "0">>}
    IN CASE q.tstate = "Sign" ->
               IF c \in Digit THEN [q EXCEPT !.tstate = "IntegerDigits", !.tbuf = Append(@, c)]
               ELSE syntax_error(q)
         [] q.tstate = "IntegerDigits" ->
               IF c \in Digit
               THEN IF leading_zero THEN syntax_error(q) ELSE [q EXCEPT !.tbuf = Append(@, c)]
               ELSE IF c = "." THEN [q EXCEPT !.tstate = "Fraction", !.tbuf = Append(@, c)]
               ELSE IF c \in {"e", "E"}
               THEN [q EXCEPT !.tstate = "ExponentSign", !.tbuf = Append(@, c)]
               ELSE end_number(q, c)
         [] q.tstate = "Fraction" ->
               IF c \in Digit THEN [q EXCEPT !.tbuf = Append(@, c)]
               ELSE IF last = "." THEN syntax_error(q)
               ELSE IF c \in {"e", "E"}
               THEN [q EXCEPT !.tstate = "ExponentSign", !.tbuf = Append(@, c)]
               ELSE end_number(q, c)
         [] q.tstate = "ExponentSign" ->
               IF c \in Digit \cup {"+", "-"}
               THEN [q EXCEPT !.tstate = "ExponentDigits", !.tbuf = Append(@, c)]
               ELSE syntax_error(q)
         [] q.tstate = "ExponentDigits" ->
               IF c \in Digit THEN [q EXCEPT !.tbuf = Append(@, c)]
               ELSE IF last \notin Digit THEN syntax_error(q)
               ELSE end_number(q, c)

parse_literal(q, c) ==
    IF c # q.word[Len(q.tbuf) + 1] THEN syntax_error(q)
    ELSE IF Len(q.tbuf) + 1 < Len(q.word) THEN [q EXCEPT !.tbuf = Append(@, c)]
    ELSE LET r == [q EXCEPT !.tstate = "none", !.tbuf = <<>>, !.word = <<>>]
         IN value_done(emit(r,
                IF q.word = <<"n", "u", "l", "l">> THEN [ev |-> "null_parsed"]
                ELSE [ev |-> "boolean_parsed", b |-> (q.word = <<"t", "r", "u", "e">>)]))

\* the byte is consumed unless it was the offending one
consume(q) == IF q.error # NoError THEN q ELSE [q EXCEPT !.pos = @ + 1]

\* one byte of a chunk
parse_byte(q, c) ==
    consume(deliver(
        CASE q.tstate = "none" -> parse_structure(q, c)
          [] q.tstate \in {"Normal", "Escape", "UnicodeEscape"} -> parse_string(q, c)
          [] q.tstate = "InLiteral" -> parse_literal(q, c)
          [] OTHER -> parse_number(q, c)))

RECURSIVE feed_from(_, _, _)
\* the loop of feed over the chunk, from byte i on; a SyntaxError ends it
feed_from(q, chunk, i) ==
    IF i > Len(chunk) \/ q.error # NoError THEN q
    ELSE feed_from(parse_byte(q, chunk[i]), chunk, i + 1)

\* parser::feed(chunk); a SyntaxError is terminal for the parser instance
feed(q, chunk) == IF q.error # NoError THEN q ELSE feed_from(q, chunk, 1)

\* dom_parser p: a parser in ExpectingValue at depth 0, doc{type::array}, an empty
\* key, stack = {&doc}
dom_parser ==
    [containers |-> <<>>, tstate |-> "none", tbuf |-> <<>>, hex |-> <<>>, word |-> <<>>,
     pos |-> 0, error |-> NoError, out |-> <<>>, events |-> <<>>,
     doc |-> value_of_type("array"), key |-> <<>>, stack |-> << <<>> >>]

(***************************************************************************)
(* Inputs: the documents a caller reads and the trees a caller writes.     *)
(***************************************************************************)
\* well-formed documents (a top-level number is complete only once a byte follows it)
ValidDocs ==
    {<<"{", "\"", "a", "\"", ":", "1", ",", "\"", "a", "\"", ":", "2", "}">>,
     <<"4", "2">>,
     <<"4", "2", " ">>,
     <<"3", ".", "1", "4", "0", "0">>,
     <<"3", ".", "1", "4", "0", "0", "<LF>">>,
     <<"{", "\"", "a", "\"", ":", "3", ".", "1", "4", "0", "0", "}">>,
     <<" ", "{", " ", "\"", "a", "\"", " ", ":", " ", "[", " ", "1", " ", ",", " ", "t", "r", "u", "e", " ", "]", " ", "}", " ">>,
     <<"\"", "a", "\\", "u", "0", "0", "4", "1", "\\", "n", "\"">>,
     <<"t", "r", "u", "e">>,
     <<"f", "a", "l", "s", "e">>,
     <<"n", "u", "l", "l">>,
     <<"[", "]">>,
     <<"{", "}">>,
     <<"[", "[", "]", ",", "{", "}", "]">>,
     <<"-", "0", ".", "1", "e", "+", "2", " ">>,
     <<"[", "1", "e", "2", ",", "-", "1", "E", "-", "1", "]">>,
     <<"\"", "\\", "\"", "\\", "\\", "\\", "/", "\\", "b", "\\", "f", "\\", "n", "\\", "r", "\\", "t", "\"">>,
     <<"{", "\"", "b", "\"", ":", "1", ",", "\"", "a", "\"", ":", "2", "}">>,
     <<"1", " ", "2", " ">>,
     <<"1", " ", "2", " ", "1", " ">>,
     <<"[", "1", "]", "[", "2", "]">>,
     <<"{", "\"", "a", "\"", ":", "{", "\"", "b", "\"", ":", "[", "n", "u", "l", "l", "]", "}", "}">>,
     <<"{", "\"", "\"", ":", "\"", "<01>", "/", "\"", "}">>,
     <<"[", "1", "2", "3", "4", "1", "2", "3", "4", "1", "2", "3", "4", "1", "2", "3", "4", "1", "2", "3", "4", "]">>,
     <<"{", "\"", "a", "\"", ":", "[", "1", "2", "3", "4", "1", "2", "3", "4", "1", "2", "3", "4",
       "1", "2", "3", "4", ",", "{", "\"", "b", "\"", ":", "3", ".", "1", "4", "0", "0", "}", "]", "}">>,
     <<"<TAB>", "<CR>", "<LF>">>,
     <<"{", "\"", "a", "\"", ":", "[", "1", "]", ",", "\"", "a", "\"", ":", "{", "\"", "b", "\"", ":", "2", "}", "}">>}

\* documents with a byte that violates the grammar
InvalidDocs ==
    {<<"[", "1", ",", "]">>,
     <<"{", ",", "}">>,
     <<"{", "\"", "a", "\"", ":", "1", ",", "}">>,
     <<"[", "1", " ", "2", "]">>,
     <<"t", "r", "u", "x">>,
     <<"0", "1">>,
     <<"-", "a">>,
     <<"1", ".", "e", "1">>,
     <<"1", "e", "]">>,
     <<"\"", "\\", "s", "\"">>,
     <<"\"", "\\", "u", "0", "n", "\"">>,
     <<"}">>,
     <<"]">>,
     <<":">>,
     <<",">>,
     <<"{", "\"", "a", "\"", " ", "1", "}">>,
     <<"[", "}">>,
     <<"{", "]">>,
     <<"{", "\"", "a", "\"", ":", "}">>,
     <<"n", "u", "l", "s">>,
     <<"1", "e", "+", " ">>,
     <<"{", "\"", "a", "\"", ":", "1", " ", "\"", "b", "\"", ":", "2", "}">>,
     <<"{", "1", ":", "2", "}">>,
     <<"[", "1", ",", ",", "2", "]">>,
     <<"[", "-", "]">>,
     <<"1", ".", "0", ".", "1">>,
     <<"{", "\"", "a", "\"", ":", "1", "}", "}">>}

\* input that ends early: the proper prefixes of the well-formed documents
TruncatedDocs == UNION {{SubSeq(d, 1, n) : n \in 0..(Len(d) - 1)} : d \in ValidDocs} \ ValidDocs

Docs == ValidDocs \cup InvalidDocs \cup TruncatedDocs

\* sequences over S of length at most n
SeqUpTo(S, n) == UNION {[1..k -> S] : k \in 0..n}

\* string contents: the eight escaped characters, a control byte that is not
\* escaped, the bytes of a multi-byte character, letters that name escapes
StrBytes == {"a", "n", "u", "\"", "\\", "/", "<BS>", "<FF>", "<LF>", "<CR>", "<TAB>",
             "<01>", "<C3>", "<A9>"}
StrTexts == SeqUpTo(StrBytes, MaxStrLen)

\* number literals (text that matches the JSON number grammar)
NumTexts ==
    {<<"0">>, <<"-", "1">>, <<"3", ".", "1", "4", "0", "0">>, <<"1", "e", "+", "2">>,
     <<"-", "0", ".", "0", "E", "-", "1", "0">>,
     <<"1", "2", "3", "4", "1", "2", "3", "4", "1", "2", "3", "4", "1", "2", "3", "4">>}

Scalars ==
    {value_default, variant_bool(TRUE), variant_bool(FALSE)}
    \cup {variant_string_number(n) : n \in NumTexts}
    \cup {variant_string(t) : t \in StrTexts}

SmallScalars ==
    {value_default, variant_bool(TRUE), value_of_type("boolean"), value_of_type("number"),
     variant_string_number(<<"3", ".", "1", "4", "0", "0">>), value_of_type("string"),
     variant_string(<<"b", "\"">>)}

\* objects with keys among K and values among V
ObjectsOver(K, V) == UNION {{variant_object(f) : f \in [D -> V]} : D \in SUBSET K}

\* arrays of at most n values among V
ArraysOver(V, n) == {variant_array(a) : a \in SeqUpTo(V, n)}

FlatTrees == ObjectsOver({<<"a">>, <<"b">>}, SmallScalars) \cup ArraysOver(SmallScalars, MaxArr)

TinyTrees ==
    {value_of_type("object"), value_of_type("array"), variant_array(<<value_default>>),
     variant_object([k \in {<<"b">>} |-> value_of_type("object")])}

Trees ==
    SmallScalars
    \cup FlatTrees
    \cup ObjectsOver({<<"a">>}, Scalars)
    \cup {variant_object([k \in {t} |-> value_default]) : t \in StrTexts}
    \cup ObjectsOver({<<"a">>}, FlatTrees)
    \cup ObjectsOver({<<"a", "/">>, <<"A">>}, TinyTrees)
    \cup ArraysOver(TinyTrees, MaxArr)

\* the members of a generated object document: a key and the text and value of
\* what is stored under it
MemberVals ==
    {[text |-> <<"1">>, val |-> variant_string_number(<<"1">>)],
     [text |-> <<"[", "2", "]">>, val |-> variant_array(<<variant_string_number(<<"2">>)>>)],
     [text |-> <<"{", "}">>, val |-> value_of_type("object")]}
Members == {[key |-> k, text |-> m.text, val |-> m.val] : k \in {<<"a">>, <<"b">>}, m \in MemberVals}
MemberLists == UNION {[1..k -> Members] : k \in 1..MaxMembers}

RECURSIVE member_text(_, _)
member_text(ms, i) ==
    IF i > Len(ms) THEN <<>>
    ELSE (IF i # 1 THEN <<",">> ELSE <<>>) \o <<"\"">> \o ms[i].key \o <<"\"", ":">>
         \o ms[i].text \o member_text(ms, i + 1)

\* the object document with the members ms, in that order
member_doc(ms) == <<"{">> \o member_text(ms, 1) \o <<"}">>

(***************************************************************************)
(* The caller, jsondom::read, jsondom::write and value::to_string.         *)
(***************************************************************************)
NoRet == [kind |-> "none"]

Min(a, b) == IF a < b THEN a ELSE b

\* what a file a caller writes to may hold beforehand
PriorContents == <<"[", "1", "]", "[", "2", "]">>

\* a papki::file that is not open: its bytes, the access position, whether it is
\* open, and the mode it was last opened in
closed_file(data) == [data |-> data, pos |-> 0, opened |-> FALSE, mode |-> "none"]

\* papki::file::guard's constructor: the file is opened in the mode, at its start;
\* papki::mode::create makes it empty
guard_open(f, mode) ==
    [data |-> IF mode = "create" THEN <<>> ELSE f.data, pos |-> 0, opened |-> TRUE, mode |-> mode]

\* a guard that leaves the file open
guard_release_never(f) == f

\* papki::file::guard's destructor, run when the scope is left by a return or by
\* an exception: the file is closed
guard_release(f) == [f EXCEPT !.opened = FALSE]

Init ==
    /\ pc = "start"
    /\ \/ /\ tree \in Trees
          /\ fi = closed_file(<<>>)
          /\ members = <<>>
       \/ /\ tree \in SmallScalars \cup FlatTrees
          /\ fi = closed_file(PriorContents)
          /\ members = <<>>
       \/ /\ tree = value_default
          /\ \E d \in Docs : fi = closed_file(d)
          /\ members = <<>>
       \/ /\ tree = value_default
          /\ members \in MemberLists
          /\ fi = closed_file(member_doc(members))
    /\ p = dom_parser
    /\ ret = NoRet
    /\ fed = <<>>

\* the value the caller holds: the one read returned, else the one it built
cur == IF pc = "returned" THEN ret.value ELSE tree

\* a root check that lets arrays through
invalid_root_array_ok(v) == ~(is(v, "object") \/ is(v, "array"))

\* the root check of jsondom::write: TRUE iff it throws std::logic_error
invalid_root(v) == ~is(v, "object")

\* the std::logic_error jsondom::write throws for the root v
logic_error(v) ==
    [kind |-> "logic_error", what |-> "tried to write JSON with non-object root element",
     of |-> v]

\* the guard constructed before the root check: the file is opened with
\* papki::mode::create and closed again when std::logic_error leaves the scope
write_begin_guard_first ==
    /\ pc = "start"
    /\ IF invalid_root(tree)
       THEN /\ ret' = logic_error(tree)
            /\ pc' = "failed"
            /\ fi' = guard_release(guard_open(fi, "create"))
       ELSE /\ ret' = ret
            /\ pc' = "writing"
            /\ fi' = guard_open(fi, "create")
    /\ UNCHANGED <<tree, p, members, fed>>

\* jsondom::write(fi, tree) up to the call of write_internal: the root is
\* checked, then the file opened with papki::mode::create
write_begin ==
    /\ pc = "start"
    /\ IF invalid_root(tree)
       THEN /\ ret' = logic_error(tree)
            /\ pc' = "failed"
            /\ fi' = fi
       ELSE /\ ret' = ret
            /\ pc' = "writing"
            /\ fi' = guard_open(fi, "create")
    /\ UNCHANGED <<tree, p, members, fed>>

\* write_internal(fi, tree) and the end of the scope of the guard; the sink may
\* fail after any number of bytes
write_end ==
    /\ pc = "writing"
    /\ \E n \in 0..Len(write_internal(tree)) :
          /\ fi' = guard_release([fi EXCEPT !.data = SubSeq(write_internal(tree), 1, n)])
          /\ ret' = IF n < Len(write_internal(tree)) THEN [kind |-> "sink_error", of |-> tree]
                    ELSE [kind |-> "written", of |-> tree]
          /\ pc' = IF n < Len(write_internal(tree)) THEN "failed" ELSE "written"
    /\ UNCHANGED <<tree, p, members, fed>>

\* value::to_string on the value the caller holds: jsondom::write into a vector_file
to_string ==
    /\ pc \in {"start", "returned"}
    /\ ret' = IF invalid_root(cur) THEN logic_error(cur)
              ELSE [kind |-> "text", text |-> write_internal(cur), of |-> cur]
    /\ pc' = IF invalid_root(cur) THEN "failed" ELSE "done"
    /\ UNCHANGED <<tree, fi, p, members, fed>>

\* a typed accessor called on the value the caller holds
access ==
    /\ pc \in {"start", "returned"}
    /\ \E t \in {"boolean", "number", "string", "array", "object"}, const \in BOOLEAN :
          ret' = [kind |-> "access", requested |-> t, of |-> cur, result |-> accessor(cur, t, const)]
    /\ pc' = "done"
    /\ UNCHANGED <<tree, fi, p, members, fed>>

\* value::value(jsondom::type): a value of the requested kind is constructed
construct ==
    /\ pc = "start"
    /\ \E i \in 1..Len(type) :
          ret' = [kind |-> "constructed", requested |-> type[i], value |-> value_of_type(type[i])]
    /\ pc' = "done"
    /\ UNCHANGED <<tree, fi, p, members, fed>>

\* value::value() = default
construct_default ==
    /\ pc = "start"
    /\ ret' = [kind |-> "default_constructed", value |-> value_default]
    /\ pc' = "done"
    /\ UNCHANGED <<tree, fi, p, members, fed>>

\* jsondom::read(const char*) with a null pointer
read_null ==
    /\ pc = "start"
    /\ ret' = [kind |-> "value", value |-> value_default]
    /\ pc' = "returned"
    /\ UNCHANGED <<tree, fi, p, members, fed>>

\* jsondom::read(fi) up to the loop: the parser is constructed and the file opened
read_begin ==
    /\ pc \in {"start", "written"}
    /\ p' = dom_parser
    /\ fi' = guard_open(fi, "read")
    /\ fed' = <<>>
    /\ pc' = "reading"
    /\ UNCHANGED <<tree, ret, members>>

\* the res bytes fi.read(buf) copies into the buffer from position pos of the
\* file, handed to feed as utki::make_span(buf.data(), res)
\* the span taken from the start of the source at every turn
feed_span_rewound(data, pos, res) == SubSeq(data, 1, res)

feed_span(data, pos, res) == SubSeq(data, pos + 1, pos + res)

\* a parser constructed anew in every turn of the loop
loop_parser_fresh(q) == dom_parser

\* the parser a turn of the loop feeds: p, constructed once before the loop
loop_parser(q) == q

\* the exception swallowed: the loop goes on
after_feed_swallow(q) == "reading"

\* where the loop goes after p.feed: an exception leaves read
after_feed(q) == IF q.error # NoError THEN "failed" ELSE "reading"

\* one turn of the loop with res > 0: fi.read fills res bytes of the buffer, which
\* are fed as one chunk
read_chunk ==
    /\ pc = "reading"
    /\ \E res \in 1..Min(MaxChunk, Len(fi.data) - fi.pos) :
          /\ p' = feed(loop_parser(p), feed_span(fi.data, fi.pos, res))
          /\ fed' = fed \o feed_span(fi.data, fi.pos, res)
          /\ pc' = after_feed(p')
          /\ fi' = IF pc' = "reading" THEN [fi EXCEPT !.pos = fi.pos + res]
                   ELSE guard_release([fi EXCEPT !.pos = fi.pos + res])
          /\ ret' = IF p'.error # NoError THEN p'.error ELSE ret
    /\ UNCHANGED <<tree, members>>

\* the wrapper itself returned for empty input
\* the back of the wrapper array returned instead of its front
read_result_last(q) == IF q.doc.arr = <<>> THEN value_default ELSE q.doc.arr[Len(q.doc.arr)]

read_result_wrapper(q) == IF q.doc.arr = <<>> THEN q.doc ELSE q.doc.arr[1]

\* the value read returns: the front of the wrapper array, or a null value
read_result(q) == IF q.doc.arr = <<>> THEN value_default ELSE q.doc.arr[1]

\* the turn of the loop with res = 0 and what follows it: the file is closed;
\* ASSERT(p.stack.size() == 1) aborts a debug build and is absent from a release build
read_end ==
    /\ pc = "reading"
    /\ fi.pos = Len(fi.data)
    /\ fi' = guard_release(fi)
    /\ \E debug \in BOOLEAN :
          IF debug /\ Len(p.stack) # 1
          THEN /\ pc' = "aborted"
               /\ ret' = [kind |-> "assertion_failed"]
          ELSE /\ pc' = "returned"
               /\ ret' = [kind |-> "value", value |-> read_result(p)]
    /\ UNCHANGED <<tree, p, members, fed>>

Next ==
    \/ write_begin
    \/ write_end
    \/ to_string
    \/ access
    \/ construct
    \/ construct_default
    \/ read_null
    \/ read_begin
    \/ read_chunk
    \/ read_end

Spec == Init /\ [][Next]_vars

\* jsondom::read(fi) on its own: the caller holds a byte source and calls read
ReadInit ==
    /\ pc = "start"
    /\ tree = value_default
    /\ members = <<>>
    /\ \E d \in Docs : fi = closed_file(d)
    /\ p = dom_parser
    /\ ret = NoRet
    /\ fed = <<>>

ReadNext ==
    \/ read_begin
    \/ read_chunk
    \/ read_end

\* once read is in its loop it goes on: the next turn reads and feeds a chunk, or
\* gets zero bytes and leaves the loop
ReadSpec == ReadInit /\ [][ReadNext]_vars /\ WF_vars(read_chunk) /\ WF_vars(read_end)

(***************************************************************************)
(* Properties.                                                             *)
(***************************************************************************)
Doc_42 == <<"4", "2">>
Doc_3_1400 == <<"3", ".", "1", "4", "0", "0">>
Doc_a_3_1400 == <<"{", "\"", "a", "\"", ":", "3", ".", "1", "4", "0", "0", "}">>

\* jsondom::read(fi) is in its loop or has left it
InRead ==
    \/ pc \in {"reading", "returned", "aborted"}
    \/ pc = "failed" /\ ret.kind = "SyntaxError"

\* jsondom::read(fi) has returned after reading the whole source
ReadReturned == pc = "returned" /\ fi.pos = Len(fi.data)

\* C1: chunk-boundary independence.  Whatever chunks read has fed so far, if the
\* bytes fed are accepted when fed as a single chunk, then feeding them in those
\* chunks signalled no error and produced the same sequence of events and the
\* same tree in the builder as the single chunk does.
C1_ChunkBoundaryIndependence ==
    InRead =>
        LET one == feed(dom_parser, SubSeq(fi.data, 1, fi.pos))
        IN one.error = NoError =>
              /\ p.error = NoError
              /\ p.events = one.events
              /\ p.doc = one.doc

\* a chunk ended inside an escape sequence of a string, after an event was emitted
C1_Witness ==
    /\ pc = "reading"
    /\ p.tstate = "Escape"
    /\ p.events # <<>>
    /\ fi.pos < Len(fi.data)

\* C2: round trip.  When the file holds what write produced for an object-rooted
\* tree, read does not fail and returns a value equal to the tree.
C2_RoundTrip ==
    (~invalid_root(tree) /\ fi.data = write_internal(tree) /\ InRead) =>
        /\ pc # "failed"
        /\ pc # "aborted"
        /\ ReadReturned => ret.value = tree

\* an object whose string holds a backslash and a letter that names an escape
C2_Witness ==
    /\ ReadReturned
    /\ tree = variant_object([k \in {<<"a">>} |-> variant_string(<<"\\", "n">>)])
    /\ fi.data = write_internal(tree)
    /\ ret.value = tree

\* the index of the last member of ms with key k
last_member(ms, k) == CHOOSE i \in 1..Len(ms) : ms[i].key = k /\ \A j \in (i + 1)..Len(ms) : ms[j].key # k

\* C3: duplicate keys, last write wins.  The object read from a document with the
\* members ms has exactly the keys of ms, and under each key the value of the
\* last member with that key.
C3_LastWriteWins ==
    (ReadReturned /\ members # <<>>) =>
        /\ get_type(ret.value) = "object"
        /\ DOMAIN ret.value.obj = {members[i].key : i \in 1..Len(members)}
        /\ \A k \in DOMAIN ret.value.obj : ret.value.obj[k] = members[last_member(members, k)].val

\* {"a":1,"b":{},"a":[2]}: a scalar under "a" is replaced by a container
C3_Witness ==
    /\ ReadReturned
    /\ Len(members) = 3
    /\ members[1].key = <<"a">> /\ members[1].text = <<"1">>
    /\ members[2].key = <<"b">>
    /\ members[3].key = <<"a">> /\ members[3].text = <<"[", "2", "]">>
    /\ DOMAIN ret.value.obj = {<<"a">>, <<"b">>}

\* C4: whenever the loop of read ends without an error (read returns, or reaches
\* its assertion), the builder's stack holds only the top-level wrapper.
C4_StackEmptyAtEnd == pc \in {"returned", "aborted"} => Len(p.stack) = 1

\* C5: a SyntaxError is terminal.  Once feed has signalled it, read has failed
\* with that error and holds no value, the file is released, and nothing is read
\* from the source, fed to the parser or delivered to the builder any more.
C5_SyntaxErrorTerminal ==
    /\ [](p.error # NoError => (pc = "failed" /\ ret = p.error /\ ~fi.opened))
    /\ [][p.error # NoError => (p' = p /\ fed' = fed /\ fi' = fi /\ ret' = ret)]_vars

\* the error was signalled while bytes of the source were still unread
C5_Witness ==
    /\ p.error # NoError
    /\ pc = "failed"
    /\ fi.pos < Len(fi.data)
    /\ p.events # <<>>

\* C6: empty input.  A read that returns without having drawn a byte from the
\* source (an empty source, or a null string pointer) returns a Null value.
C6_EmptyInputIsNull ==
    (pc = "returned" /\ fi.pos = 0) => (ret.value = value_default /\ get_type(ret.value) = "null")

\* read has returned for a source of zero bytes
C6_Witness ==
    /\ pc = "returned"
    /\ fi.data = <<>>
    /\ ret.kind = "value"
    /\ get_type(ret.value) = "null"

\* C7: read("42") succeeds and returns the Number whose literal text is "42".
C7_TopLevelScalar ==
    (fi.data = Doc_42 /\ fi.pos = Len(fi.data) /\ pc \in {"returned", "aborted", "failed"}) =>
        (pc = "returned" /\ ret.value = variant_string_number(Doc_42))

\* C8: root restriction of the writer.  write and to_string throw for every
\* value that is not an Object, and for an Object they throw nothing of their
\* own: write ends written or with the sink's failure, to_string with the text.
C8_RootRestriction ==
    /\ ret.kind = "logic_error" => get_type(ret.of) \in {"null", "boolean", "number", "string", "array"}
    /\ ret.kind \in {"written", "sink_error", "text"} => get_type(ret.of) = "object"

\* to_string has thrown for an array root
C8_Witness ==
    /\ pc = "failed"
    /\ ret.kind = "logic_error"
    /\ get_type(ret.of) = "array"
    /\ ret.of.arr # <<>>

\* C9 as stated: read("3.1400") followed by to_string gives the text "3.1400".
C9_BareNumberToText ==
    (fi.data = Doc_3_1400 /\ fi.pos = Len(fi.data) /\ ret.kind \in {"text", "logic_error"}) =>
        (ret.kind = "text" /\ ret.text = Doc_3_1400)

\* C9 amended: read of {"a":3.1400} followed by to_string gives the text
\* {"a":3.1400}, the number as it was written.
C9_NumberFidelityInObject ==
    (fi.data = Doc_a_3_1400 /\ fi.pos = Len(fi.data) /\ ret.kind \in {"text", "logic_error"}) =>
        (ret.kind = "text" /\ ret.text = Doc_a_3_1400)

\* to_string was called on the value read from {"a":3.1400}
C9_Witness ==
    /\ fi.data = Doc_a_3_1400
    /\ fi.pos = Len(fi.data)
    /\ pc = "done"
    /\ ret.kind = "text"

\* the field that holds the payload of kind k
payload_field(k) ==
    CASE k = "boolean" -> {"b"} [] k = "number" -> {"num"} [] k = "string" -> {"str"}
      [] k = "object" -> {"obj"} [] k = "array" -> {"arr"} [] OTHER -> {}

\* C10: type safety.  An accessor of another kind than the value's fails with
\* unexpected_value_type, whose message names the requested and the stored kind;
\* the accessor of the value's kind returns the payload; get_type is the kind of
\* the payload the value holds.
C10_TypeSafety ==
    ret.kind = "access" =>
        LET k == get_type(ret.of)
        IN /\ DOMAIN ret.of = {"index"} \cup payload_field(k)
           /\ ret.requested # k =>
                 /\ ~ret.result.ok
                 /\ ret.result.error = "unexpected_value_type"
                 /\ ret.result.what[2] = ret.requested
                 /\ ret.result.what[4] = k
           /\ ret.requested = k =>
                 /\ ret.result.ok
                 /\ {ret.result.val} = {ret.of[f] : f \in payload_field(k)}

\* the array accessor was called on an object that read returned
C10_Witness ==
    /\ ret.kind = "access"
    /\ ret.requested = "array"
    /\ get_type(ret.of) = "object"
    /\ ~ret.result.ok
    /\ fed # <<>>

\* the escape letter of each of the eight characters the policy escapes
EscapeLetter ==
    [c \in {"\"", "\\", "/", "<BS>", "<FF>", "<LF>", "<CR>", "<TAB>"} |->
        CASE c = "<BS>" -> "b" [] c = "<FF>" -> "f" [] c = "<LF>" -> "n"
          [] c = "<CR>" -> "r" [] c = "<TAB>" -> "t" [] OTHER -> c]

RECURSIVE PolicyText(_)
\* a string as the escaping policy renders it
PolicyText(str) ==
    IF str = <<>> THEN <<>>
    ELSE (IF Head(str) \in DOMAIN EscapeLetter THEN <<"\\", EscapeLetter[Head(str)]>>
          ELSE <<Head(str)>>) \o PolicyText(Tail(str))

\* the object with the single entry k: v
Single(k, v) == variant_object([x \in {k} |-> v])

\* C11: escaping policy.  In what write produces for an object with one entry,
\* the key and a string value appear between quotes with exactly the eight
\* characters quote, backslash, slash, backspace, form feed, newline, carriage
\* return and tab replaced by their two-character escapes and every other byte
\* unchanged.
C11_EscapingPolicy ==
    pc = "written" =>
        /\ \A s \in StrTexts :
              tree = Single(<<"a">>, variant_string(s)) =>
                  fi.data = <<"{", "\"", "a", "\"", ":", "\"">> \o PolicyText(s) \o <<"\"", "}">>
        /\ \A k \in StrTexts :
              tree = Single(k, value_default) =>
                  fi.data = <<"{", "\"">> \o PolicyText(k) \o <<"\"", ":", "n", "u", "l", "l", "}">>

\* a string with a slash and a control byte that is not escaped was written
C11_Witness ==
    /\ pc = "written"
    /\ tree = Single(<<"a">>, variant_string(<<"/", "<01>">>))
    /\ Len(fi.data) = 11

RECURSIVE Ascending(_)
\* the keys in ascending order of their bytes
Ascending(keys) ==
    IF keys = {} THEN <<>>
    ELSE LET least == CHOOSE k \in keys :
                \A o \in keys \ {k} :
                    \/ \E i \in 1..Len(o) :
                          /\ i <= Len(k) + 1
                          /\ SubSeq(k, 1, i - 1) = SubSeq(o, 1, i - 1)
                          /\ (i = Len(k) + 1 \/ ByteCode[k[i]] < ByteCode[o[i]])
         IN <<least>> \o Ascending(keys \ {least})

\* the members of ms that are the last with their key, ordered by ascending key
Canonical(ms) ==
    LET order == Ascending({ms[i].key : i \in 1..Len(ms)})
    IN [j \in 1..Len(order) |-> ms[last_member(ms, order[j])]]

RECURSIVE Joined(_, _)
\* the texts of the values a from the i-th on, separated by commas
Joined(a, i) ==
    IF i > Len(a) THEN <<>>
    ELSE (IF i # 1 THEN <<",">> ELSE <<>>) \o write_internal(a[i]) \o Joined(a, i + 1)

\* C12: key-order normalization.  The text to_string gives for the object read
\* from a document with the members ms depends on the key/value pairs only, not
\* on their order in the input: it lists the pairs by ascending key; and the
\* text of an array lists its elements in element order.
C12_KeyOrderNormalization ==
    /\ (ret.kind = "text" /\ members # <<>>) =>
          /\ ret.text = member_doc(Canonical(members))
          /\ ret.of = variant_object([k \in {members[i].key : i \in 1..Len(members)} |->
                                        members[last_member(members, k)].val])
    /\ (ret.kind = "text" /\ DOMAIN ret.of.obj = {<<"a">>} /\ get_type(ret.of.obj[<<"a">>]) = "array") =>
          ret.text = <<"{", "\"", "a", "\"", ":", "[">> \o Joined(ret.of.obj[<<"a">>].arr, 1) \o <<"]", "}">>

\* the members were read in the order b, a and written in the order a, b
C12_Witness ==
    /\ ret.kind = "text"
    /\ Len(members) = 2
    /\ members[1].key = <<"b">>
    /\ members[2].key = <<"a">>
    /\ members[2].text = <<"[", "2", "]">>
    /\ ret.text = member_doc(<<members[2], members[1]>>)

\* the zero value of each kind
ZeroValue ==
    [t \in {"null", "boolean", "number", "string", "object", "array"} |->
        CASE t = "null" -> [index |-> 0]
          [] t = "boolean" -> [index |-> 1, b |-> FALSE]
          [] t = "number" -> [index |-> 2, num |-> <<"0">>]
          [] t = "string" -> [index |-> 3, str |-> <<>>]
          [] t = "object" -> [index |-> 4, obj |-> <<>>]
          [] t = "array" -> [index |-> 5, arr |-> <<>>]]

\* C13: a value constructed from a kind has that kind and holds the kind's
\* zero value (null, false, the number text 0, the empty string, the empty
\* mapping, the empty sequence); a default-constructed value is null.
C13_ConstructFromKind ==
    /\ ret.kind = "constructed" =>
          /\ get_type(ret.value) = ret.requested
          /\ ret.value = ZeroValue[ret.requested]
    /\ ret.kind = "default_constructed" =>
          /\ get_type(ret.value) = "null"
          /\ ret.value = ZeroValue["null"]

\* a boolean was constructed from its kind
C13_Witness ==
    /\ pc = "done"
    /\ ret.kind = "constructed"
    /\ ret.requested = "boolean"
    /\ ret.value.b = FALSE

RECURSIVE OpenKinds(_, _)
\* the kinds of the containers the first n events leave open, outermost first
OpenKinds(events, n) ==
    IF n = 0 THEN <<>>
    ELSE LET before == OpenKinds(events, n - 1)
         IN CASE events[n].ev = "object_start" -> Append(before, "object")
              [] events[n].ev = "array_start" -> Append(before, "array")
              [] events[n].ev \in {"object_end", "array_end"} ->
                    SubSeq(before, 1, Len(before) - 1)
              [] OTHER -> before

\* the stack of b has the wrapper at the bottom and above it the open containers
\* in nesting order, each a child present in the container below it
StackDiscipline(b, open) ==
    /\ Len(b.stack) = 1 + Len(open)
    /\ b.stack[1] = <<>>
    /\ get_type(b.doc) = "array"
    /\ \A i \in 2..Len(b.stack) :
          LET parent == Deref(b.doc, b.stack[i - 1])
              step == b.stack[i][Len(b.stack[i])]
          IN /\ b.stack[i] = Append(b.stack[i - 1], step)
             /\ IF get_type(parent) = "array"
                THEN "idx" \in DOMAIN step /\ step.idx = Len(parent.arr)
                ELSE /\ get_type(parent) = "object"
                     /\ "key" \in DOMAIN step
                     /\ step.key \in DOMAIN parent.obj
             /\ get_type(Deref(b.doc, b.stack[i])) = open[i - 1]

\* from b to c only the container on top of the stack of b changed, and the
\* stack was pushed, popped or left alone
OnlyTopMutated(b, c) ==
    LET top == b.stack[Len(b.stack)]
    IN /\ c.doc = Store(b.doc, top, Deref(c.doc, top))
       /\ \/ c.stack = b.stack
          \/ Len(c.stack) = Len(b.stack) + 1 /\ SubSeq(c.stack, 1, Len(b.stack)) = b.stack
          \/ Len(c.stack) = Len(b.stack) - 1 /\ c.stack = SubSeq(b.stack, 1, Len(c.stack))

RECURSIVE StackDisciplineFrom(_, _)
\* b, the builder after the first n events, keeps the discipline, each further
\* event changes only the container on top of the stack, and the builder after
\* the last event is the one read holds
StackDisciplineFrom(b, n) ==
    /\ StackDiscipline(b, OpenKinds(p.events, n))
    /\ IF n = Len(p.events)
       THEN p.stack = b.stack /\ p.doc = b.doc
       ELSE LET c == handler(b, p.events[n + 1])
            IN OnlyTopMutated(b, c) /\ StackDisciplineFrom(c, n + 1)

\* C14: builder stack discipline.  After every prefix of the events the parser
\* has emitted, the stack is not empty, its bottom is the wrapper array, it has
\* one entry per open container in nesting order, each entry above the bottom
\* refers to a child of the entry below, and each event changed only the
\* container on top of the stack.
C14_StackDiscipline ==
    StackDisciplineFrom(dom_parser, 0)

\* an array inside an object inside an object is open and has an element
C14_Witness ==
    /\ pc = "reading"
    /\ Len(p.stack) = 4
    /\ OpenKinds(p.events, Len(p.events)) = <<"object", "object", "array">>
    /\ Deref(p.doc, p.stack[4]).arr # <<>>

\* the scalar a value event carries
EventValue(e) ==
    CASE e.ev = "string_parsed" -> [index |-> 3, str |-> e.str]
      [] e.ev = "number_parsed" -> [index |-> 2, num |-> e.str]
      [] e.ev = "boolean_parsed" -> [index |-> 1, b |-> e.b]
      [] e.ev = "null_parsed" -> [index |-> 0]

\* the frame f with v as the last element of its array, or as the entry of its
\* object under the key the frame holds
Put(f, v) ==
    IF f.val.index = 5
    THEN [val |-> [index |-> 5, arr |-> Append(f.val.arr, v)], key |-> f.key]
    ELSE [val |-> [index |-> 4,
                   obj |-> [x \in (DOMAIN f.val.obj) \cup {f.key} |->
                               IF x = f.key THEN v ELSE f.val.obj[x]]],
          key |-> f.key]

\* the innermost frame closed: its container becomes a member of the one below
Close(frames) ==
    LET n == Len(frames)
    IN Append(SubSeq(frames, 1, n - 2), Put(frames[n - 1], frames[n].val))

RECURSIVE Frames(_, _)
\* the containers the first n events have opened and not closed, outermost
\* first, each with its content so far and the key of the member being read
Frames(events, n) ==
    IF n = 0 THEN << [val |-> [index |-> 5, arr |-> <<>>], key |-> <<>>] >>
    ELSE LET before == Frames(events, n - 1)
             e == events[n]
             m == Len(before)
         IN CASE e.ev = "object_start" ->
                    Append(before, [val |-> [index |-> 4, obj |-> <<>>], key |-> <<>>])
              [] e.ev = "array_start" ->
                    Append(before, [val |-> [index |-> 5, arr |-> <<>>], key |-> <<>>])
              [] e.ev \in {"object_end", "array_end"} -> Close(before)
              [] e.ev = "key_parsed" -> [before EXCEPT ![m].key = e.str]
              [] OTHER -> [before EXCEPT ![m] = Put(@, EventValue(e))]

RECURSIVE Denoted(_)
\* the wrapper the frames denote: every open container is a member of the one below
Denoted(frames) == IF Len(frames) = 1 THEN frames[1].val ELSE Denoted(Close(frames))

RECURSIVE DenotedFrom(_, _)
\* the tree of b, the builder after the first n events, is the tree those events
\* denote, and so after each further event up to the builder read holds
DenotedFrom(b, n) ==
    /\ b.doc = Denoted(Frames(p.events, n))
    /\ IF n = Len(p.events) THEN p.doc = b.doc
       ELSE DenotedFrom(handler(b, p.events[n + 1]), n + 1)

\* C15: nesting reconstruction.  After every prefix of the events the parser has
\* emitted, the builder's tree is the tree the events denote: each value is a
\* member of the innermost container open when its event came, array elements in
\* event order and object members under the key parsed before them, and an end
\* event closes the innermost open container.
C15_NestingReconstruction ==
    DenotedFrom(dom_parser, 0)

\* the document {"a":[1],"a":{"b":2}} was read to its end
C15_Witness ==
    /\ pc = "reading"
    /\ fi.pos = Len(fi.data)
    /\ Len(p.events) = 11
    /\ p.doc = [index |-> 5, arr |-> << [index |-> 4,
                  obj |-> [x \in {<<"a">>} |-> [index |-> 4,
                      obj |-> [y \in {<<"b">>} |-> [index |-> 2, num |-> <<"2">>]]]]] >>]

\* the events that attach a value or open a container
AttachEvents ==
    {"string_parsed", "number_parsed", "boolean_parsed", "null_parsed", "object_start", "array_start"}

RECURSIVE PendingKeyFrom(_, _)
\* the key of a, the builder after the first n events, and of the builders after
\* each further event
PendingKeyFrom(a, n) ==
    /\ a.key # <<>> =>
          /\ n > 0
          /\ p.events[n].ev = "key_parsed"
          /\ get_type(Deref(a.doc, a.stack[Len(a.stack)])) = "object"
    /\ IF n = Len(p.events) THEN p.key = a.key
       ELSE LET b == handler(a, p.events[n + 1])
            IN /\ p.events[n + 1].ev \in AttachEvents =>
                     /\ b.key = <<>>
                     /\ get_type(Deref(a.doc, a.stack[Len(a.stack)])) = "array" => a.key = <<>>
               /\ p.events[n + 1].ev \in {"object_end", "array_end"} =>
                     /\ b.key = <<>>
                     /\ a.key = <<>>
               /\ PendingKeyFrom(b, n + 1)

\* C16: pending-key discipline.  After every prefix of the events the parser has
\* emitted: the key buffer is non-empty only when the last event was key-parsed
\* and an object is the innermost open container; it is empty after every event
\* that attaches a value or opens a container, empty before and after a value is
\* attached to an array, and empty before and after a container is closed.
C16_PendingKey == PendingKeyFrom(dom_parser, 0)

\* a key is pending in an object that already has a member with an array value
C16_Witness ==
    /\ pc = "reading"
    /\ p.key = <<"a">>
    /\ Len(p.stack) = 2
    /\ <<"a">> \in DOMAIN Deref(p.doc, p.stack[2]).obj
    /\ Deref(p.doc, p.stack[2]).obj[<<"a">>] = [index |-> 5, arr |-> << [index |-> 2, num |-> <<"1">>] >>]

\* the top-level values the events emitted so far denote, in input order
TopLevelValues == Denoted(Frames(p.events, Len(p.events))).arr

\* C17: read returns the first top-level value.  When read has returned, the
\* result is null if no top-level value was attached to the wrapper, and
\* otherwise the first element of the wrapper, which is the first top-level
\* value in input order, whatever values follow it.
C17_FirstTopLevelValue ==
    ReadReturned =>
        /\ Len(p.doc.arr) = Len(TopLevelValues)
        /\ IF TopLevelValues = <<>>
           THEN ret.value = [index |-> 0]
           ELSE ret.value = TopLevelValues[1] /\ ret.value = p.doc.arr[1]

\* the document [1][2] was read: the result is [1], and [2] is not part of it
C17_Witness ==
    /\ ReadReturned
    /\ fi.data = <<"[", "1", "]", "[", "2", "]">>
    /\ Len(p.doc.arr) = 2
    /\ ret.value = [index |-> 5, arr |-> << [index |-> 2, num |-> <<"1">>] >>]
    /\ p.doc.arr[2] = [index |-> 5, arr |-> << [index |-> 2, num |-> <<"2">>] >>]

RECURSIVE NumbersOf(_)
RECURSIVE NumbersAmong(_, _, _)
\* the texts of the numbers among the members of v named by order, from the i-th on
NumbersAmong(v, order, i) ==
    IF i > Len(order) THEN <<>>
    ELSE NumbersOf(IF v.index = 5 THEN v.arr[order[i]] ELSE v.obj[order[i]])
         \o NumbersAmong(v, order, i + 1)

\* the texts of the numbers in v: array elements in order, object members by ascending key
NumbersOf(v) ==
    CASE v.index = 2 -> <<v.num>>
      [] v.index = 5 -> NumbersAmong(v, [i \in 1..Len(v.arr) |-> i], 1)
      [] v.index = 4 -> NumbersAmong(v, Ascending(DOMAIN v.obj), 1)
      [] OTHER -> <<>>

RECURSIVE NumberTokens(_, _, _, _)
\* the number tokens of JSON text from byte i on: the runs of number characters
\* outside strings that start with a digit or a minus sign; mode is "out",
\* "string" or "escape", and token the run being read
NumberTokens(text, i, mode, token) ==
    LET flush == IF token = <<>> THEN <<>> ELSE <<token>>
    IN IF i > Len(text) THEN flush
       ELSE CASE mode = "escape" -> NumberTokens(text, i + 1, "string", <<>>)
              [] mode = "string" ->
                    NumberTokens(text, i + 1,
                        IF text[i] = "\\" THEN "escape" ELSE IF text[i] = "\"" THEN "out" ELSE "string",
                        <<>>)
              [] text[i] = "\"" -> flush \o NumberTokens(text, i + 1, "string", <<>>)
              [] text[i] \in {"0", "1", "2", "3", "4", "-"} ->
                    NumberTokens(text, i + 1, "out", Append(token, text[i]))
              [] token # <<>> /\ text[i] \in {"+", ".", "e", "E"} ->
                    NumberTokens(text, i + 1, "out", Append(token, text[i]))
              [] OTHER -> flush \o NumberTokens(text, i + 1, "out", <<>>)

\* how often x occurs in the sequence s
Count(s, x) == Cardinality({i \in 1..Len(s) : s[i] = x})

\* the number-parsed event n, which took the builder from a to b, stored its
\* text as the number attached to the container on top of the stack
StoredVerbatim(a, b, n) ==
    LET target == Deref(b.doc, a.stack[Len(a.stack)])
    IN IF target.index = 5
       THEN target.arr[Len(target.arr)] = [index |-> 2, num |-> p.events[n].str]
       ELSE target.obj[a.key] = [index |-> 2, num |-> p.events[n].str]

RECURSIVE StoredVerbatimFrom(_, _)
\* every number-parsed event after the first n, which gave the builder a, stored
\* its text unchanged
StoredVerbatimFrom(a, n) ==
    n < Len(p.events) =>
        LET b == handler(a, p.events[n + 1])
        IN /\ p.events[n + 1].ev = "number_parsed" => StoredVerbatim(a, b, n + 1)
           /\ StoredVerbatimFrom(b, n + 1)

\* C18: numbers are serialized verbatim.  The number tokens of the text write or
\* to_string produced are the stored texts of the numbers of the tree, at every
\* depth; the builder stores the text of each number-parsed event unchanged; and
\* the numbers of the text produced from a value that was read are number
\* tokens of the document, all of them when no number of the document was
\* dropped from the result.
C18_NumbersVerbatim ==
    /\ ret.kind = "text" => NumberTokens(ret.text, 1, "out", <<>>) = NumbersOf(ret.of)
    /\ pc = "written" => NumberTokens(fi.data, 1, "out", <<>>) = NumbersOf(tree)
    /\ StoredVerbatimFrom(dom_parser, 0)
    /\ (ret.kind = "text" /\ p.events # <<>> /\ fi.pos = Len(fi.data)) =>
          LET in == NumberTokens(fi.data, 1, "out", <<>>)
              out == NumberTokens(ret.text, 1, "out", <<>>)
          IN /\ \A i \in 1..Len(out) : Count(out, out[i]) <= Count(in, out[i])
             /\ Len(in) = Len(out) => \A i \in 1..Len(in) : Count(out, in[i]) = Count(in, in[i])

\* a document with a sixteen-digit integer and a fraction with trailing zeros
Doc_numbers ==
    <<"{", "\"", "a", "\"", ":", "[", "1", "2", "3", "4", "1", "2", "3", "4", "1", "2", "3", "4",
      "1", "2", "3", "4", ",", "{", "\"", "b", "\"", ":", "3", ".", "1", "4", "0", "0", "}", "]", "}">>

\* to_string was called on the value read from Doc_numbers and gave its text
C18_Witness ==
    /\ fi.data = Doc_numbers
    /\ fi.pos = Len(fi.data)
    /\ ret.kind = "text"
    /\ ret.text = Doc_numbers
    /\ Len(NumbersOf(ret.of)) = 2

\* C19: the read loop.  What has been fed to the parser is the source up to the
\* read position: each byte once, in source order.  read leaves the loop with a
\* value only after a read of zero bytes, which is at the end of the source, and
\* fails as soon as feed has signalled an error.  A turn of the loop reads a
\* chunk of at least one byte and at most the buffer size from the read position
\* and feeds it, and the parser has consumed the whole chunk when the next turn
\* starts.  Every read of a finite source ends.
C19_ReadLoop ==
    /\ [](InRead => fed = SubSeq(fi.data, 1, fi.pos))
    /\ [](pc \in {"returned", "aborted"} => (fi.pos = Len(fi.data) /\ p.error = NoError))
    /\ [](pc = "reading" => (p.error = NoError /\ p.out = <<>> /\ p.pos = Len(fed)))
    /\ []((pc = "failed" /\ fed # <<>>) => (p.error # NoError /\ p.pos < Len(fed)))
    /\ [][fed' # fed =>
            /\ pc = "reading"
            /\ \E res \in 1..MaxChunk :
                  /\ fi'.pos = fi.pos + res
                  /\ fed' = fed \o SubSeq(fi.data, fi.pos + 1, fi.pos + res)
            /\ fi'.data = fi.data]_vars
    /\ (pc = "reading" ~> pc \in {"returned", "aborted", "failed"})

\* read has returned after three turns of the loop with chunks of the buffer size
C19_Witness ==
    /\ pc = "returned"
    /\ Len(fed) > 2 * MaxChunk
    /\ fed = fi.data

\* C20: scoped acquisition.  The file is open exactly while read is in its loop
\* or write is between opening the sink and the end of write_internal: at every
\* exit of read or write, by a return, by the SyntaxError of feed or by a failed
\* write to the sink, the file has been closed.  read opens the source for
\* reading; write opens the sink with mode create, which empties it, so that
\* after write the sink holds only what this write put there.
C20_ScopedAcquisition ==
    /\ [](fi.opened <=> pc \in {"reading", "writing"})
    /\ [](pc = "reading" => fi.mode = "read")
    /\ [](pc = "writing" => (fi.mode = "create" /\ fi.data = <<>>))
    /\ [][pc = "writing" =>
            /\ pc' \in {"written", "failed"}
            /\ ~fi'.opened
            /\ \E n \in 0..Len(write_internal(tree)) :
                  /\ fi'.data = SubSeq(write_internal(tree), 1, n)
                  /\ (pc' = "written") = (n = Len(write_internal(tree)))]_vars
    /\ [][(pc = "reading" /\ pc' # "reading") => ~fi'.opened]_vars

\* a write to the sink failed after two bytes and the sink has been closed
C20_Witness ==
    /\ pc = "failed"
    /\ ret.kind = "sink_error"
    /\ ~fi.opened
    /\ fi.mode = "create"
    /\ fi.data = <<"{", "\"">>

\* C21: the root is checked before the sink is acquired.  The step in which
\* write fails with std::logic_error for a root that is not an object leaves the
\* file as it was: not opened, not emptied, nothing written; a file in that
\* state was never opened with mode create.
C21_RootCheckBeforeAcquire ==
    /\ [][(ret'.kind = "logic_error" /\ ret.kind # "logic_error") =>
            (fi' = fi /\ ~fi'.opened /\ ~is(ret'.of, "object"))]_vars
    /\ [](ret.kind = "logic_error" => (~fi.opened /\ fi.mode # "create"))

\* write failed for an array root on a sink that holds its prior contents
C21_Witness ==
    /\ pc = "failed"
    /\ ret.kind = "logic_error"
    /\ get_type(tree) = "array"
    /\ fi = closed_file(PriorContents)

=============================================================================
